---- MODULE Spec2Model ----
(***************************************************************************)
(* A model of the Markdown segment/merge tool                              *)
(*   examples/skills/workspace/skills/markdown-segment-translator/         *)
(*   scripts/segment_tool.py                                               *)
(* and of the page-range parser of                                         *)
(*   examples/skills/workspace/skills/pdfmd/pdf_extract.py.                *)
(*                                                                         *)
(* Every command of segment_tool.py is one process invocation that runs to *)
(* completion or dies on its first exception, so each action below is one  *)
(* whole invocation with one of the outcomes the code can have.  The files *)
(* under <output-dir> are the state; `last` and the *_run variables are    *)
(* history variables that record what the last invocation did and which    *)
(* segmentation run a file stems from.                                     *)
(*                                                                         *)
(* Left out: the directories that __init__ creates (lines 25-27; they hold *)
(* no content), the wall-clock line of the merged header (line 120), and   *)
(* I/O errors of the merge command while it reads a counterpart or writes  *)
(* the final document.  A line of the input file is known by its path and  *)
(* its number.                                                             *)
(***************************************************************************)
EXTENDS Integers, Sequences, FiniteSets, TLC

VARIABLES
    segments_dir,      \* index i |-> lines of <output-dir>/segments/segment_<i>.md
    translations_dir,  \* index i |-> lines of <output-dir>/translations/translated_segment_<i>.md
    final_dir,         \* base name |-> document <output-dir>/final/complete_translated_<name>.md
    metadata_file,     \* <output-dir>/metadata/segments_info.json: absent, corrupt or a record
    last,              \* history: the last invocation, its arguments and its outcome
    run,               \* history: number of segment invocations so far
    seg_run,           \* history: index i |-> whether segment_<i>.md was written by the run
                       \*          the metadata file records ("current") or not ("other")
    trans_run,         \* history: index i |-> the same, for the segment file the
                       \*          counterpart translated_segment_<i>.md was made from
    page_range,        \* pdf_extract.py: the --pages expression, a sequence of characters
    page_count,        \* pdf_extract.py: len(reader.pages)
    pages,             \* pdf_extract.py: the value parse_page_range returned
    chunks,            \* pdf_extract.py: the page numbers of the chunks, in output order
    pdf_pc             \* pdf_extract.py: "start" before extract_pdf_text, "done" after

toolvars == <<segments_dir, translations_dir, final_dir, metadata_file,
              last, run, seg_run, trans_run>>
pdfvars == <<page_range, page_count, pages, chunks, pdf_pc>>
vars == <<segments_dir, translations_dir, final_dir, metadata_file,
          last, run, seg_run, trans_run,
          page_range, page_count, pages, chunks, pdf_pc>>

(***************************************************************************)
(* Bounds of the model.                                                    *)
(***************************************************************************)
MaxLines == 3
MaxRuns == 2
MaxRunsBeforeMerge == 1
MaxExprLen == 5
MaxPage == 3

\* The largest --segment-size and --max-segments tried follow the longest document.
MaxSegSize == MaxLines - 1
MaxCap == MaxLines - 1

\* The input paths tried for --input.
Paths == {"a.md"}

\* Path(source_file).stem
Stem(path) ==
    CASE path = "a.md" -> "a"
      [] path = "docs/b.md" -> "b"

\* --segment-size: argparse takes any int; 0 makes line 44 divide by zero.
SegSizes == 0..MaxSegSize

\* --max-segments: absent (None) or any int, negative ones included.
NoCap == [some |-> FALSE, v |-> 0]
Caps == {NoCap} \cup [some : {TRUE}, v : (0 - 1)..MaxCap]

\* f.readlines() of the input file: line j of the file at `path` with n lines.
ReadLines(path, n) == [j \in 1..n |-> <<path, j>>]

Min(a, b) == IF a <= b THEN a ELSE b

\* Python's range(n): empty when n <= 0.
Range(n) == 0..(n - 1)

\* Python's truth value of max_segments: None and 0 are both false.
Truthy(max_segments) == max_segments.some /\ max_segments.v # 0

\* lines 44-46: the number of segments
NumSegments(total_lines, segment_size, max_segments) ==
    LET num_segments == (total_lines + segment_size - 1) \div segment_size
    IN  IF Truthy(max_segments) /\ num_segments > max_segments.v
        THEN max_segments.v
        ELSE num_segments

\* line 56
StartLine(i, segment_size) == i * segment_size

\* line 57 without the min(): the end of a full segment
EndLineUnclamped(i, segment_size, total_lines) == (i + 1) * segment_size

\* line 57
EndLine(i, segment_size, total_lines) == Min((i + 1) * segment_size, total_lines)

\* line 61: lines[start_line:end_line]; a Python slice stops at the end of the list
Slice(lines, start_line, end_line) ==
    SubSeq(lines, Min(start_line, Len(lines)) + 1, Min(end_line, Len(lines)))

\* line 59: the path of segment i+1
SegmentFile(index) == <<"segments", index>>

\* line 60 with mode 'a': the data is added to what the file held
WriteFileAppending(old, data) == old \o data

\* line 60: open(segment_file, 'w') truncates, then the data is written
WriteFile(old, data) == data

\* lines 63-69
SegmentInfo(i, segment_size, total_lines) ==
    LET start_line == StartLine(i, segment_size)
        end_line == EndLine(i, segment_size, total_lines)
    IN  [index |-> i + 1,
         file |-> SegmentFile(i + 1),
         start_line |-> start_line + 1,
         end_line |-> end_line,
         line_count |-> end_line - start_line]

\* lines 52-70: segments_info after the loop ran for i in range(num_segments)
SegmentsInfo(num_segments, segment_size, total_lines) ==
    [k \in 1..num_segments |-> SegmentInfo(k - 1, segment_size, total_lines)]

\* lines 74-80
Metadata(input_file, total_lines, num_segments, segment_size) ==
    [state |-> "valid",
     source_file |-> input_file,
     total_lines |-> total_lines,
     num_segments |-> num_segments,
     segment_size |-> segment_size,
     segments |-> SegmentsInfo(num_segments, segment_size, total_lines)]

\* The metadata file when it holds no record: absent, or cut off inside the
\* JSON text (open(..., 'w') truncated it and json.dump did not finish).
NoMetadata(state) ==
    [state |-> state, source_file |-> "", total_lines |-> 0, num_segments |-> 0,
     segment_size |-> 0, segments |-> <<>>]

\* The content of an existing file, or nothing for a file that does not exist.
Content(dir, index) == IF index \in DOMAIN dir THEN dir[index] ELSE <<>>

\* lines 55-61: the segment files after iterations i = 0 .. n-1 of the loop
WriteSegments(dir, lines, segment_size, n) ==
    [index \in DOMAIN dir \cup {i + 1 : i \in Range(n)} |->
        IF index - 1 \in Range(n)
        THEN WriteFile(Content(dir, index),
                       Slice(lines, StartLine(index - 1, segment_size),
                             EndLine(index - 1, segment_size, Len(lines))))
        ELSE dir[index]]

\* One file replaced (or created) with the given content.
Put(dir, index, content) ==
    [k \in DOMAIN dir \cup {index} |-> IF k = index THEN content ELSE dir[k]]

\* History: files 1..n were written by this run, which the metadata file
\* records (r = "current") or does not (r = "other").
Stamp(runs, n, r) ==
    [index \in DOMAIN runs \cup {i + 1 : i \in Range(n)} |->
        IF index - 1 \in Range(n) THEN r ELSE runs[index]]

\* History: the metadata file no longer records the run these files stem from.
Superseded(runs) == [index \in DOMAIN runs |-> "other"]

\* The record of a segment invocation that returned: its arguments, the
\* segment files it wrote, and whether it repeats the invocation before it.
SegmentCall(input_file, total_lines, segment_size, max_segments, written, repeat) ==
    [op |-> "segment", ok |-> TRUE, err |-> "", exit |-> 0,
     input |-> input_file, total_lines |-> total_lines,
     segment_size |-> segment_size, max_segments |-> max_segments,
     written |-> written, repeat |-> repeat,
     warnings |-> <<>>, output |-> "", section_runs |-> <<>>]

\* The record of a segment invocation that died: the exception main() reports
\* (lines 177-181, exit status 1) and the segment files opened before it.
FailedSegmentCall(err, written) ==
    [op |-> "segment", ok |-> FALSE, err |-> err, exit |-> 1,
     input |-> "", total_lines |-> 0, segment_size |-> 0, max_segments |-> NoCap,
     written |-> written, repeat |-> FALSE,
     warnings |-> <<>>, output |-> "", section_runs |-> <<>>]

\* The second of two successful segment invocations in a row with the same
\* input file content, input path, segment size and cap.
Repeats(input_file, total_lines, segment_size, max_segments) ==
    /\ last.op = "segment" /\ last.ok
    /\ last.input = input_file /\ last.total_lines = total_lines
    /\ last.segment_size = segment_size /\ last.max_segments = max_segments

(***************************************************************************)
(* segment_document, lines 29-90, by outcome.                              *)
(***************************************************************************)

\* lines 37-38: the input file is missing or cannot be read or decoded
SegmentReadFails(input_file, err) ==
    /\ last' = FailedSegmentCall(err, {})
    /\ UNCHANGED <<segments_dir, translations_dir, final_dir, metadata_file,
                   seg_run, trans_run>>
    /\ UNCHANGED pdfvars

\* line 44 with segment_size = 0: ZeroDivisionError
SegmentDividesByZero(input_file, total_lines, max_segments) ==
    /\ 0 \in SegSizes
    /\ last' = FailedSegmentCall("ZeroDivisionError", {})
    /\ UNCHANGED <<segments_dir, translations_dir, final_dir, metadata_file,
                   seg_run, trans_run>>
    /\ UNCHANGED pdfvars

\* lines 55-61: writing segment file j fails; files 1..j-1 are written, file j
\* is untouched (open failed) or holds the first `kept` lines of its slice.
SegmentWriteFails(input_file, total_lines, segment_size, max_segments, j, opened, kept) ==
    LET lines == ReadLines(input_file, total_lines)
        num_segments == NumSegments(total_lines, segment_size, max_segments)
        data == Slice(lines, StartLine(j - 1, segment_size),
                      EndLine(j - 1, segment_size, total_lines))
        done == WriteSegments(segments_dir, lines, segment_size, j - 1)
    IN  /\ segment_size > 0
        /\ j - 1 \in Range(num_segments)
        /\ kept \in 0..Len(data)
        /\ opened \/ kept = 0
        /\ segments_dir' = IF opened
                           THEN Put(done, j, WriteFile(Content(done, j), SubSeq(data, 1, kept)))
                           ELSE done
        /\ seg_run' = Stamp(seg_run, IF opened THEN j ELSE j - 1, "other")
        /\ last' = FailedSegmentCall("IOError", 1..(IF opened THEN j ELSE j - 1))
        /\ UNCHANGED <<translations_dir, final_dir, metadata_file, trans_run>>
        /\ UNCHANGED pdfvars

\* lines 82-84: all segment files are written, writing the metadata fails:
\* open(metadata_file, 'w') fails and the file is untouched, or it succeeded
\* (the file is now empty) and json.dump dies inside the text.
SegmentMetadataFails(input_file, total_lines, segment_size, max_segments, opened) ==
    LET lines == ReadLines(input_file, total_lines)
        num_segments == NumSegments(total_lines, segment_size, max_segments)
    IN  /\ segment_size > 0
        /\ segments_dir' = WriteSegments(segments_dir, lines, segment_size, num_segments)
        /\ seg_run' = IF opened THEN Superseded(Stamp(seg_run, num_segments, "other"))
                                ELSE Stamp(seg_run, num_segments, "other")
        /\ trans_run' = IF opened THEN Superseded(trans_run) ELSE trans_run
        /\ metadata_file' = IF opened THEN NoMetadata("corrupt") ELSE metadata_file
        /\ last' = FailedSegmentCall("IOError", {i + 1 : i \in Range(num_segments)})
        /\ UNCHANGED <<translations_dir, final_dir>>
        /\ UNCHANGED pdfvars

\* lines 29-90 without an exception
SegmentCompletes(input_file, total_lines, segment_size, max_segments) ==
    LET lines == ReadLines(input_file, total_lines)
        num_segments == NumSegments(total_lines, segment_size, max_segments)
    IN  /\ segment_size > 0
        /\ segments_dir' = WriteSegments(segments_dir, lines, segment_size, num_segments)
        /\ seg_run' = Stamp(Superseded(seg_run), num_segments, "current")
        /\ trans_run' = Superseded(trans_run)
        /\ metadata_file' = Metadata(input_file, total_lines, num_segments, segment_size)
        /\ last' = SegmentCall(input_file, total_lines, segment_size, max_segments,
                               {i + 1 : i \in Range(num_segments)},
                               Repeats(input_file, total_lines, segment_size, max_segments))
        /\ UNCHANGED <<translations_dir, final_dir>>
        /\ UNCHANGED pdfvars

(***************************************************************************)
(* The external step between segment and merge: some actor reads           *)
(* segment_<i>.md and deposits translated_segment_<i>.md.                  *)
(***************************************************************************)

\* The counterpart made from the lines of a segment file.
Translated(content) == [j \in DOMAIN content |-> <<"zh", content[j]>>]

\* The record of that step.
TranslateCall(index) ==
    [op |-> "translate", ok |-> TRUE, err |-> "", exit |-> 0,
     input |-> "", total_lines |-> 0, segment_size |-> 0, max_segments |-> NoCap,
     written |-> {index}, repeat |-> FALSE,
     warnings |-> <<>>, output |-> "", section_runs |-> <<>>]

Translate(index) ==
    /\ index \in DOMAIN segments_dir
    /\ translations_dir' = Put(translations_dir, index, Translated(segments_dir[index]))
    /\ trans_run' = Put(trans_run, index, seg_run[index])
    /\ last' = TranslateCall(index)
    /\ UNCHANGED <<segments_dir, final_dir, metadata_file, seg_run>>
    /\ UNCHANGED pdfvars

(***************************************************************************)
(* merge_translations, lines 92-150, by outcome.                           *)
(***************************************************************************)

\* --input of the merge command: absent ("" here, false like None) or a path.
Overrides == {"", "docs/b.md"}

\* lines 107-108
SourceFile(override, metadata) ==
    IF override = "" THEN metadata.source_file ELSE override

\* lines 112-122: the header block (the wall-clock line of line 120 is left
\* out: no run of the tool reads it back)
Header(source_file, metadata) ==
    [title |-> Stem(source_file),
     source_file |-> source_file,
     total_lines |-> metadata.total_lines,
     num_segments |-> metadata.num_segments]

\* lines 136-138: one section of the merged document
Section(seg_info, content) ==
    [index |-> seg_info.index,
     start_line |-> seg_info.start_line,
     end_line |-> seg_info.end_line,
     content |-> content]

\* lines 125-140 with the sections put in front of the earlier ones
RECURSIVE MergedSectionsReversed(_, _)
MergedSectionsReversed(segments, translations) ==
    IF segments = <<>> THEN <<>>
    ELSE LET seg_info == Head(segments)
             rest == MergedSectionsReversed(Tail(segments), translations)
         IN  IF seg_info.index \notin DOMAIN translations
             THEN rest
             ELSE rest \o <<Section(seg_info, translations[seg_info.index])>>

\* lines 125-140 with `break` for the `continue` of line 131
RECURSIVE MergedSectionsUntilMissing(_, _)
MergedSectionsUntilMissing(segments, translations) ==
    IF segments = <<>> THEN <<>>
    ELSE LET seg_info == Head(segments)
         IN  IF seg_info.index \notin DOMAIN translations
             THEN <<>>
             ELSE <<Section(seg_info, translations[seg_info.index])>>
                  \o MergedSectionsUntilMissing(Tail(segments), translations)

\* lines 125-140: the sections appended while iterating metadata['segments']
RECURSIVE MergedSections(_, _)
MergedSections(segments, translations) ==
    IF segments = <<>> THEN <<>>
    ELSE LET seg_info == Head(segments)
             rest == MergedSections(Tail(segments), translations)
         IN  IF seg_info.index \notin DOMAIN translations
             THEN rest
             ELSE <<Section(seg_info, translations[seg_info.index])>> \o rest

\* lines 129-131: the warnings printed, by missing index, in order
RECURSIVE MergeWarnings(_, _)
MergeWarnings(segments, translations) ==
    IF segments = <<>> THEN <<>>
    ELSE LET seg_info == Head(segments)
             rest == MergeWarnings(Tail(segments), translations)
         IN  IF seg_info.index \notin DOMAIN translations
             THEN <<seg_info.index>> \o rest
             ELSE rest

\* The record of a merge invocation.
MergeCall(ok, err, warnings, output, section_runs) ==
    [op |-> "merge", ok |-> ok, err |-> err, exit |-> IF ok THEN 0 ELSE 1,
     input |-> "", total_lines |-> 0, segment_size |-> 0, max_segments |-> NoCap,
     written |-> {}, repeat |-> FALSE,
     warnings |-> warnings, output |-> output, section_runs |-> section_runs]

\* lines 99-101 without the check: a header-only document is written
MergeNotFoundWritesHeader(override) ==
    LET source_name == IF override = "" THEN "document" ELSE Stem(override)
    IN  /\ metadata_file.state = "absent"
        /\ final_dir' = [n \in DOMAIN final_dir \cup {source_name} |->
                            IF n = source_name
                            THEN [header |-> Header("a.md", metadata_file), sections |-> <<>>]
                            ELSE final_dir[n]]
        /\ last' = MergeCall(TRUE, "", <<>>, source_name, <<>>)
        /\ UNCHANGED <<segments_dir, translations_dir, metadata_file, seg_run, trans_run>>
        /\ UNCHANGED pdfvars

\* lines 99-101: no metadata file
MergeNotFound(override) ==
    /\ metadata_file.state = "absent"
    /\ last' = MergeCall(FALSE, "FileNotFoundError", <<>>, "", <<>>)
    /\ UNCHANGED <<segments_dir, translations_dir, final_dir, metadata_file,
                   seg_run, trans_run>>
    /\ UNCHANGED pdfvars

\* lines 103-104: the metadata file holds no complete JSON text
MergeDecodeFails(override) ==
    /\ metadata_file.state = "corrupt"
    /\ last' = MergeCall(FALSE, "JSONDecodeError", <<>>, "", <<>>)
    /\ UNCHANGED <<segments_dir, translations_dir, final_dir, metadata_file,
                   seg_run, trans_run>>
    /\ UNCHANGED pdfvars

\* lines 92-150 without an exception
MergeCompletes(override) ==
    LET metadata == metadata_file
        source_file == SourceFile(override, metadata)
        source_name == Stem(source_file)
        sections == MergedSections(metadata.segments, translations_dir)
        document == [header |-> Header(source_file, metadata), sections |-> sections]
    IN  /\ metadata_file.state = "valid"
        /\ final_dir' = [n \in DOMAIN final_dir \cup {source_name} |->
                            IF n = source_name THEN document ELSE final_dir[n]]
        /\ last' = MergeCall(TRUE, "",
                             MergeWarnings(metadata.segments, translations_dir),
                             source_name,
                             [k \in DOMAIN sections |-> trans_run[sections[k].index]])
        /\ UNCHANGED <<segments_dir, translations_dir, metadata_file, seg_run, trans_run>>
        /\ UNCHANGED pdfvars

\* No invocation yet.
NoCall ==
    [op |-> "none", ok |-> TRUE, err |-> "", exit |-> 0,
     input |-> "", total_lines |-> 0, segment_size |-> 0, max_segments |-> NoCap,
     written |-> {}, repeat |-> FALSE,
     warnings |-> <<>>, output |-> "", section_runs |-> <<>>]

(***************************************************************************)
(* pdf_extract.py: parse_page_range and extract_pdf_text.  A string is a   *)
(* sequence of one-character strings.                                      *)
(***************************************************************************)

\* The characters the --pages expressions are made of.
Chars == {"0", "1", "3", "-", ",", " ", "x"}

Digits == {"0", "1", "2", "3", "4", "5", "6", "7", "8", "9"}

DigitValue(c) ==
    CASE c = "0" -> 0 [] c = "1" -> 1 [] c = "2" -> 2 [] c = "3" -> 3 [] c = "4" -> 4
      [] c = "5" -> 5 [] c = "6" -> 6 [] c = "7" -> 7 [] c = "8" -> 8 [] c = "9" -> 9

\* Python's str.strip()
RECURSIVE Strip(_)
Strip(s) ==
    IF s = <<>> THEN s
    ELSE IF Head(s) = " " THEN Strip(Tail(s))
    ELSE IF s[Len(s)] = " " THEN Strip(SubSeq(s, 1, Len(s) - 1))
    ELSE s

\* The value of a string of decimal digits.
RECURSIVE Decimal(_)
Decimal(s) ==
    IF s = <<>> THEN 0
    ELSE 10 * Decimal(SubSeq(s, 1, Len(s) - 1)) + DigitValue(s[Len(s)])

\* Python's int(s): white space around the number is ignored, a sign may
\* precede the digits, anything else raises ValueError (ok = FALSE).
ParseInt(s) ==
    LET t == Strip(s)
        signed == t # <<>> /\ Head(t) \in {"-", "+"}
        digits == IF signed THEN Tail(t) ELSE t
        ok == digits # <<>> /\ \A k \in DOMAIN digits : digits[k] \in Digits
        magnitude == IF ok THEN Decimal(digits) ELSE 0
    IN  [ok |-> ok,
         value |-> IF signed /\ Head(t) = "-" THEN 0 - magnitude ELSE magnitude]

\* The first position of character c in s, 0 when there is none.
IndexOf(s, c) ==
    IF \E k \in DOMAIN s : s[k] = c
    THEN CHOOSE k \in DOMAIN s : s[k] = c /\ \A m \in 1..(k - 1) : s[m] # c
    ELSE 0

\* Python's s.split(sep)
RECURSIVE Split(_, _)
Split(s, sep) ==
    LET k == IndexOf(s, sep)
    IN  IF k = 0 THEN <<s>>
        ELSE <<SubSeq(s, 1, k - 1)>> \o Split(SubSeq(s, k + 1, Len(s)), sep)

\* parse_page_range returns None or a non-empty set.
None == [none |-> TRUE, set |-> {}]
Some(result) == [none |-> FALSE, set |-> result]

\* lines 33-55 with range(start, end) for range(start, end + 1)
PagesOfPartHalfOpen(raw_part, max_page) ==
    LET part == Strip(raw_part)
        dash == IndexOf(part, "-")
    IN  IF part = <<>> THEN {}
        ELSE IF dash # 0
        THEN LET s == ParseInt(SubSeq(part, 1, dash - 1))
                 e == ParseInt(SubSeq(part, dash + 1, Len(part)))
                 start == IF s.value > e.value THEN e.value ELSE s.value
                 end == IF s.value > e.value THEN s.value ELSE e.value
             IN  IF ~s.ok \/ ~e.ok THEN {}
                 ELSE {p \in start..(end - 1) : 1 <= p /\ p <= max_page}
        ELSE LET p == ParseInt(part)
             IN  IF ~p.ok THEN {}
                 ELSE IF 1 <= p.value /\ p.value <= max_page THEN {p.value} ELSE {}

\* lines 33-55: what one iteration of the loop adds to `result`
PagesOfPart(raw_part, max_page) ==
    LET part == Strip(raw_part)
        dash == IndexOf(part, "-")
    IN  IF part = <<>> THEN {}
        ELSE IF dash # 0
        THEN LET s == ParseInt(SubSeq(part, 1, dash - 1))
                 e == ParseInt(SubSeq(part, dash + 1, Len(part)))
                 start == IF s.value > e.value THEN e.value ELSE s.value
                 end == IF s.value > e.value THEN s.value ELSE e.value
             IN  IF ~s.ok \/ ~e.ok THEN {}
                 ELSE {p \in start..end : 1 <= p /\ p <= max_page}
        ELSE LET p == ParseInt(part)
             IN  IF ~p.ok THEN {}
                 ELSE IF 1 <= p.value /\ p.value <= max_page THEN {p.value} ELSE {}

\* lines 31-55: `result` after the loop over the parts
RECURSIVE ParseParts(_, _)
ParseParts(parts, max_page) ==
    IF parts = <<>> THEN {}
    ELSE PagesOfPart(Head(parts), max_page) \cup ParseParts(Tail(parts), max_page)

\* lines 23-56
parse_page_range(range, max_page) ==
    IF range = <<>> THEN None
    ELSE LET result == ParseParts(Split(range, ","), max_page)
         IN  IF result = {} THEN None ELSE Some(result)

\* lines 67-72: the pages i, from `from` on, whose text is appended to chunks
RECURSIVE ChunkPages(_, _, _)
ChunkPages(from, count, selected) ==
    IF from > count THEN <<>>
    ELSE IF ~selected.none /\ from \notin selected.set
         THEN ChunkPages(from + 1, count, selected)
         ELSE <<from>> \o ChunkPages(from + 1, count, selected)

\* lines 59-73
extract_pdf_text ==
    /\ pdf_pc = "start"
    /\ pages' = parse_page_range(page_range, page_count)
    /\ chunks' = ChunkPages(1, page_count, parse_page_range(page_range, page_count))
    /\ pdf_pc' = "done"
    /\ UNCHANGED <<page_range, page_count>>
    /\ UNCHANGED toolvars

\* The expression of the module documentation and of the spec's example.
ExamplePageRange == <<"1", "-", "3", ",", "5", ",", "7", "-", "8">>
\* A page beyond the document's ten pages.
BeyondPageRange == <<"2", "0">>

InitPdf ==
    /\ segments_dir = <<>>
    /\ translations_dir = <<>>
    /\ final_dir = <<>>
    /\ metadata_file = NoMetadata("absent")
    /\ last = NoCall
    /\ run = 0
    /\ seg_run = <<>>
    /\ trans_run = <<>>
    /\ \/ /\ page_range \in UNION {[1..n -> Chars] : n \in 0..MaxExprLen}
          /\ page_count \in 0..MaxPage
       \/ /\ page_range \in {ExamplePageRange, BeyondPageRange}
          /\ page_count = 10
    /\ pages = None
    /\ chunks = <<>>
    /\ pdf_pc = "start"

NextPdf == extract_pdf_text

SpecPdf == InitPdf /\ [][NextPdf]_vars

(***************************************************************************)
(* The specifications of the segment/merge tool.                           *)
(***************************************************************************)
Init ==
    /\ segments_dir = <<>>
    /\ translations_dir = <<>>
    /\ final_dir = <<>>
    /\ metadata_file = NoMetadata("absent")
    /\ last = NoCall
    /\ run = 0
    /\ seg_run = <<>>
    /\ trans_run = <<>>
    /\ page_range = <<>>
    /\ page_count = 0
    /\ pages = None
    /\ chunks = <<>>
    /\ pdf_pc = "idle"

\* Any invocation of the segment command, with any arguments and any outcome.
SegmentCommand ==
    \/ \E input_file \in Paths, err \in {"FileNotFoundError", "IOError"} :
            SegmentReadFails(input_file, err)
    \/ \E input_file \in Paths, total_lines \in 0..MaxLines, max_segments \in Caps :
            SegmentDividesByZero(input_file, total_lines, max_segments)
    \/ \E input_file \in Paths, total_lines \in 0..MaxLines, segment_size \in SegSizes,
          max_segments \in Caps, j \in 1..MaxLines, opened \in BOOLEAN, kept \in 0..MaxLines :
            SegmentWriteFails(input_file, total_lines, segment_size, max_segments,
                              j, opened, kept)
    \/ \E input_file \in Paths, total_lines \in 0..MaxLines, segment_size \in SegSizes,
          max_segments \in Caps, opened \in BOOLEAN :
            SegmentMetadataFails(input_file, total_lines, segment_size, max_segments, opened)
    \/ \E input_file \in Paths, total_lines \in 0..MaxLines, segment_size \in SegSizes,
          max_segments \in Caps :
            SegmentCompletes(input_file, total_lines, segment_size, max_segments)

\* Any invocation of the merge command.
MergeCommand ==
    \/ \E override \in Overrides : MergeNotFound(override)
    \/ \E override \in Overrides : MergeDecodeFails(override)
    \/ \E override \in Overrides : MergeCompletes(override)

\* Segment runs (at most MaxRuns of them), translations and merges in any order.
Next ==
    \/ run < MaxRuns /\ run' = run + 1 /\ SegmentCommand
    \/ run' = run /\ \E index \in 1..MaxLines : Translate(index)
    \/ run' = run /\ MergeCommand

Spec == Init /\ [][Next]_vars

\* Segment runs alone (at most MaxRuns of them): segment_document reads the
\* input file only and writes segment files and the metadata file only.
NextSegment == run < MaxRuns /\ run' = run + 1 /\ SegmentCommand

SpecSegment == Init /\ [][NextSegment]_vars

\* The workflow around a merge: at most MaxRunsBeforeMerge segment runs, with
\* translations and merges in any order.
NextMerge ==
    \/ run < MaxRunsBeforeMerge /\ run' = run + 1 /\ SegmentCommand
    \/ run' = run /\ \E index \in 1..MaxLines : Translate(index)
    \/ run' = run /\ MergeCommand

SpecMerge == Init /\ [][NextMerge]_vars

(***************************************************************************)
(* The properties.                                                         *)
(***************************************************************************)

\* ceil(a / b) for b > 0
CeilDiv(a, b) == CHOOSE q \in 0..a : q * b >= a /\ (q = 0 \/ (q - 1) * b < a)

RECURSIVE SumLineCount(_)
SumLineCount(segments) ==
    IF segments = <<>> THEN 0
    ELSE Head(segments).line_count + SumLineCount(Tail(segments))

\* The segment files 1..n, one after the other.
RECURSIVE Concatenated(_, _)
Concatenated(dir, n) ==
    IF n <= 0 THEN <<>> ELSE Concatenated(dir, n - 1) \o dir[n]

\* The last invocation was a segment run that returned.
Segmented == last.op = "segment" /\ last.ok

\* The cap of the last segment run did not bind.
CapNotBinding ==
    \/ ~last.max_segments.some
    \/ CeilDiv(last.total_lines, last.segment_size) <= last.max_segments.v

\* The cap k of the last segment run was below ceil(total_lines / segment_size).
CapBinding ==
    /\ last.max_segments.some
    /\ last.max_segments.v < CeilDiv(last.total_lines, last.segment_size)

\* C1 (coverage): after a segment run whose cap does not bind, the recorded
\* ranges, in index order, start at line 1, each start where the one before
\* ended, end at total_lines, and the line counts add up to total_lines; the
\* segment files hold those lines.
C1_Coverage ==
    (Segmented /\ CapNotBinding) =>
        LET segments == metadata_file.segments
            n == Len(segments)
            total_lines == last.total_lines
        IN  /\ metadata_file.state = "valid"
            /\ metadata_file.total_lines = total_lines
            /\ n = 0 <=> total_lines = 0
            /\ n > 0 => segments[1].start_line = 1 /\ segments[n].end_line = total_lines
            /\ \A k \in 1..n :
                /\ segments[k].start_line <= segments[k].end_line
                /\ segments[k].line_count = segments[k].end_line - segments[k].start_line + 1
                /\ k < n => segments[k + 1].start_line = segments[k].end_line + 1
            /\ SumLineCount(segments) = total_lines
            /\ 1..n \subseteq DOMAIN segments_dir
            /\ Concatenated(segments_dir, n) = ReadLines(last.input, total_lines)

\* A run with a cap that was given and does not bind, of several segments,
\* the last of them shorter than segment_size.
C1_Witness ==
    /\ Segmented /\ CapNotBinding /\ last.max_segments.some
    /\ Len(metadata_file.segments) >= 2
    /\ metadata_file.segments[Len(metadata_file.segments)].line_count < last.segment_size

\* C2 (cap truncation): after a segment run with max_segments = k below
\* ceil(total_lines / segment_size), exactly k segment files were written and
\* k descriptors recorded, num_segments = k, the line counts add up to
\* k * segment_size, the recorded segment_size is the requested one, and the
\* segment files hold the first k * segment_size lines and no other.
C2_CapTruncation ==
    (Segmented /\ CapBinding) =>
        LET k == last.max_segments.v
        IN  /\ Cardinality(last.written) = k
            /\ Len(metadata_file.segments) = k
            /\ metadata_file.num_segments = k
            /\ SumLineCount(metadata_file.segments) = k * last.segment_size
            /\ metadata_file.segment_size = last.segment_size
            /\ Concatenated(segments_dir, Len(metadata_file.segments))
                 = SubSeq(ReadLines(last.input, last.total_lines), 1, k * last.segment_size)

\* C3 (num_segments): every metadata record has num_segments >= 1, equal to
\* the number of descriptors and of segment files the run wrote, with
\* indices 1..num_segments.
C3_NumSegments ==
    metadata_file.state = "valid" =>
        /\ metadata_file.num_segments >= 1
        /\ metadata_file.num_segments = Len(metadata_file.segments)
        /\ \A k \in DOMAIN metadata_file.segments : metadata_file.segments[k].index = k
        /\ Segmented => last.written = 1..metadata_file.num_segments

\* The indices of a sequence of descriptors or sections.
Indices(seq) == [k \in DOMAIN seq |-> seq[k].index]

\* The last invocation was a merge that wrote a document.
Merged == last.op = "merge" /\ last.ok

\* The descriptors of the metadata whose counterpart file exists.
WithCounterpart ==
    SelectSeq(metadata_file.segments, LAMBDA seg : seg.index \in DOMAIN translations_dir)

\* C4 (merge ordering): the sections of a merged document are in strictly
\* increasing index order, and they are the metadata's descriptors that have
\* a counterpart file, in the metadata's order, each with its line range and
\* the content of its counterpart.
C4_MergeOrdering ==
    Merged =>
        LET sections == final_dir[last.output].sections
        IN  /\ \A j, k \in DOMAIN sections : j < k => sections[j].index < sections[k].index
            /\ Indices(sections) = Indices(WithCounterpart)
            /\ \A k \in DOMAIN sections :
                /\ sections[k].start_line = WithCounterpart[k].start_line
                /\ sections[k].end_line = WithCounterpart[k].end_line
                /\ sections[k].content = translations_dir[sections[k].index]

\* A merge of at least two sections around a missing one.
C4_Witness ==
    /\ Merged
    /\ Len(final_dir[last.output].sections) >= 2
    /\ \E k \in DOMAIN metadata_file.segments :
        /\ k \notin DOMAIN translations_dir
        /\ k - 1 \in DOMAIN translations_dir
        /\ k + 1 \in DOMAIN translations_dir

\* The indices of the metadata whose counterpart file is missing.
Missing ==
    {metadata_file.segments[k].index : k \in DOMAIN metadata_file.segments}
        \ DOMAIN translations_dir

C6_FailureAtomicity ==
    [][/\ (last'.op = "segment" /\ ~last'.ok /\ run' = run + 1)
            => metadata_file' = metadata_file
       /\ metadata_file' # metadata_file
            => /\ last'.op = "segment" /\ last'.ok
               /\ \A index \in last'.written :
                    /\ index \in DOMAIN segments_dir'
                    /\ seg_run'[index] = "current"]_vars

\* C7 (merge before segment): a merge while the metadata file is absent
\* fails with FileNotFoundError and exit status 1 and leaves the final
\* directory as it was; no merge changes a segment file, a counterpart file
\* or the metadata file.
C7_MergeBeforeSegment ==
    [][last'.op = "merge" =>
        /\ segments_dir' = segments_dir
        /\ translations_dir' = translations_dir
        /\ metadata_file' = metadata_file
        /\ metadata_file.state = "absent" =>
            /\ ~last'.ok
            /\ last'.err = "FileNotFoundError"
            /\ last'.exit = 1
            /\ final_dir' = final_dir]_vars

\* A failed merge without metadata, in a directory that holds segment files
\* and a counterpart file of a segment run that died.
C7_Witness ==
    /\ last.op = "merge" /\ last.err = "FileNotFoundError"
    /\ metadata_file.state = "absent"
    /\ segments_dir # <<>>
    /\ translations_dir # <<>>

\* C8 (idempotent segmentation): the second of two segment runs in a row
\* with the same input leaves every segment file and the metadata file as the
\* first one left them.
C8_Idempotent ==
    [][(last'.op = "segment" /\ last'.ok /\ last'.repeat /\ run' = run + 1)
        => /\ segments_dir' = segments_dir
           /\ metadata_file' = metadata_file]_vars

\* The second of two equal runs of several segments.
C8_Witness ==
    /\ Segmented /\ last.repeat
    /\ Len(metadata_file.segments) >= 2
    /\ run = 2

\* The characters i..j of the expression are a token: what stands between
\* two commas (or an end of the expression).
IsToken(i, j) ==
    /\ i <= j + 1
    /\ i = 1 \/ page_range[i - 1] = ","
    /\ j = Len(page_range) \/ page_range[j + 1] = ","
    /\ \A k \in i..j : page_range[k] # ","

\* The token names page p: it is one integer, p, or two integers with a
\* dash between them and p lies between the two, ends included.
Names(token, p) ==
    LET t == Strip(token)
    IN  \/ /\ \A k \in DOMAIN t : t[k] # "-"
           /\ ParseInt(t).ok
           /\ ParseInt(t).value = p
        \/ \E d \in DOMAIN t :
            /\ t[d] = "-"
            /\ \A k \in 1..(d - 1) : t[k] # "-"
            /\ ParseInt(SubSeq(t, 1, d - 1)).ok
            /\ ParseInt(SubSeq(t, d + 1, Len(t))).ok
            /\ LET a == ParseInt(SubSeq(t, 1, d - 1)).value
                   b == ParseInt(SubSeq(t, d + 1, Len(t))).value
               IN  (a <= p /\ p <= b) \/ (b <= p /\ p <= a)

\* The pages of the document that some token of the expression names.
NamedPages ==
    {p \in 1..page_count :
        \E i \in 1..(Len(page_range) + 1), j \in 0..Len(page_range) :
            IsToken(i, j) /\ Names(SubSeq(page_range, i, j), p)}

\* C9 (page-range parsing): parse_page_range returns the pages of the
\* document that a well-formed token names, or None when there are none, and
\* extract_pdf_text then takes all pages; the chunks are in page order.
C9_PageRange ==
    pdf_pc = "done" =>
        /\ pages = IF NamedPages = {} THEN None ELSE Some(NamedPages)
        /\ {chunks[k] : k \in DOMAIN chunks}
             = IF NamedPages = {} THEN 1..page_count ELSE NamedPages
        /\ \A j, k \in DOMAIN chunks : j < k => chunks[j] < chunks[k]
        /\ (page_range = ExamplePageRange /\ page_count = 10)
             => pages = Some({1, 2, 3, 5, 7, 8})
        /\ (page_range = BeyondPageRange /\ page_count = 10)
             => pages = None /\ Len(chunks) = 10

\* An expression with a malformed token and a range, written backwards, that
\* names two pages of the document, one page before it and one beyond it.
C9_Witness ==
    /\ pdf_pc = "done"
    /\ page_range = <<"x", ",", "3", "-", "0">>
    /\ page_count = 2
    /\ pages = Some({1, 2})

\* C10 (no cross-run mixing): every section of a merged document carries a
\* counterpart made from the segment file that the run recorded in the
\* metadata wrote for that index (a counterpart made from an earlier segment
\* file that held the very same lines counts as such).
C10_NoCrossRunMixing ==
    Merged =>
        LET sections == final_dir[last.output].sections
            lines == ReadLines(metadata_file.source_file, metadata_file.total_lines)
        IN  \A k \in DOMAIN sections :
                \/ last.section_runs[k] = "current"
                \/ sections[k].content
                     = Translated(SubSeq(lines, sections[k].start_line, sections[k].end_line))

====
